---- MODULE Spec2Model ----
(***************************************************************************)
(* qagmire: the netCDF conversion cache of src/qagmire/data.py.            *)
(*                                                                         *)
(* ViaNetCDF.single_via_netcdf maps a (read function, FITS file name) pair *)
(* to a path in the netcdf store, converts the file when no file exists at *)
(* that path, and returns the path.  The decorated reader (netcdf_wrapper) *)
(* does so for each file name of a list and opens the resulting netCDF     *)
(* files together with xr.open_mfdataset.                                  *)
(*                                                                         *)
(* Strings are sequences of one-character strings, so that splitext,       *)
(* str.replace, normpath, split and join are modelled by what they do.     *)
(* A path string is held as the sequence of its segments, that is, as the  *)
(* result of splitting it on os.sep: a leading empty segment is a leading  *)
(* separator, a trailing empty segment is a trailing separator.            *)
(***************************************************************************)
EXTENDS Integers, Sequences, FiniteSets, TLC

(***************************************************************************)
(* Sequence helpers.                                                       *)
(***************************************************************************)
Last(s) == s[Len(s)]

Front(s) == SubSeq(s, 1, Len(s) - 1)

Range(s) == {s[i] : i \in 1..Len(s)}

Max(a, b) == IF a >= b THEN a ELSE b

(***************************************************************************)
(* Characters and segments.                                                *)
(***************************************************************************)
EmptySeg == <<>>

Dot == <<".">>

DotDot == <<".", ".">>

ReadPrefix == <<"r", "e", "a", "d", "_">>

NcExt == <<".", "n", "c">>

\* s[i..] starts with pre
StartsWithAt(s, i, pre) ==
    /\ i + Len(pre) - 1 <= Len(s)
    /\ \A j \in 1..Len(pre) : s[i + j - 1] = pre[j]

\* str.replace(old, ""): every non-overlapping occurrence of old, scanning
\* from the left, is removed.
RECURSIVE RemoveAllFrom(_, _, _)
RemoveAllFrom(s, i, old) ==
    IF i > Len(s) THEN <<>>
    ELSE IF StartsWithAt(s, i, old) THEN RemoveAllFrom(s, i + Len(old), old)
    ELSE <<s[i]>> \o RemoveAllFrom(s, i + 1, old)

\* table = read_function.__name__.replace("read_", "")
TableName(name) == RemoveAllFrom(name, 1, ReadPrefix)

\* The index of the last "." of a segment, 0 when it has none.
LastDotIndex(seg) ==
    LET ds == {i \in 1..Len(seg) : seg[i] = "."}
    IN  IF ds = {} THEN 0 ELSE CHOOSE i \in ds : \A j \in ds : j <= i

\* os.path.splitext on the last component: the extension starts at the last
\* dot, unless only dots come before it (leading dots are no extension).
SplitExtRoot(seg) ==
    LET d == LastDotIndex(seg)
    IN  IF d > 0 /\ \E i \in 1..(d - 1) : seg[i] # "."
        THEN SubSeq(seg, 1, d - 1)
        ELSE seg

(***************************************************************************)
(* Paths.                                                                  *)
(***************************************************************************)
\* The number of leading separators of the path with these raw segments.
LeadingSeps(segs) ==
    LET lead == {i \in 0..Len(segs) : \A j \in 1..i : segs[j] = EmptySeg}
        n == CHOOSE i \in lead : \A j \in lead : j <= i
    IN  IF n = Len(segs) THEN Max(n - 1, 0) ELSE n

\* The component stack of posixpath.normpath: empty and "." components are
\* dropped, ".." pops a component unless none is left to pop.
RECURSIVE NormComps(_, _, _, _)
NormComps(segs, i, acc, isabs) ==
    IF i > Len(segs) THEN acc
    ELSE LET c == segs[i]
         IN  IF c = EmptySeg \/ c = Dot
             THEN NormComps(segs, i + 1, acc, isabs)
             ELSE IF c # DotDot
                     \/ (~isabs /\ acc = <<>>)
                     \/ (acc # <<>> /\ Last(acc) = DotDot)
                  THEN NormComps(segs, i + 1, Append(acc, c), isabs)
                  ELSE IF acc # <<>>
                       THEN NormComps(segs, i + 1, Front(acc), isabs)
                       ELSE NormComps(segs, i + 1, acc, isabs)

\* os.path.normpath(fn).split(os.sep): exactly two leading separators are
\* kept as two, any other positive number becomes one; the empty result is ".".
NormSplit(segs) ==
    LET n == LeadingSeps(segs)
        slashes == IF n = 2 THEN 2 ELSE IF n > 0 THEN 1 ELSE 0
        comps == NormComps(segs, 1, <<>>, n > 0)
        lead == [i \in 1..slashes |-> EmptySeg]
    IN  IF comps = <<>>
        THEN IF slashes = 0 THEN <<Dot>> ELSE Append(lead, EmptySeg)
        ELSE lead \o comps

\* seq[-3:]
LastThree(s) == SubSeq(s, Max(Len(s) - 2, 1), Len(s))

\* os.path.join(path, *parts) for parts that hold no separator: a part is
\* appended after a separator, which is added unless the path ends with one.
RECURSIVE JoinAll(_, _, _)
JoinAll(path, parts, i) ==
    IF i > Len(parts) THEN path
    ELSE IF Last(path) = EmptySeg
         THEN JoinAll(Append(Front(path), parts[i]), parts, i + 1)
         ELSE JoinAll(Append(path, parts[i]), parts, i + 1)

\* self.netcdf_store
netcdf_store == << EmptySeg, <<"n", "c">> >>

\* fn_netcdf of single_via_netcdf: the store joined with the last three
\* segments of the normalised file name, the extension removed, then
\* "_<table>.nc" appended.
CachePath(name, fn) ==
    LET joined == JoinAll(netcdf_store, LastThree(NormSplit(fn)), 1)
        root == Append(Front(joined), SplitExtRoot(Last(joined)))
    IN  Append(Front(root), Last(root) \o <<"_">> \o TableName(name) \o NcExt)

\* fn_base = os.path.splitext(os.path.basename(fn))[0]
FnBase(fn) == SplitExtRoot(Last(fn))

\* os.path.dirname(fn_netcdf)
DirName(path) == Front(path)

\* The directories os.makedirs(dir, exist_ok=True) makes sure exist.
MakeDirs(dir) == {SubSeq(dir, 1, n) : n \in 1..Len(dir)}

(***************************************************************************)
(* The arithmetic of the read functions.  A column holds binary floating   *)
(* point numbers of Precision significant bits, and every operation on     *)
(* them rounds its exact result to the nearest such number, ties to the    *)
(* even one.  Numbers are counted in units of 2^-(Precision+1): the        *)
(* numbers from 1/4 up are whole counts, those of [1/4, 1/2) one unit      *)
(* apart.                                                                  *)
(***************************************************************************)
Precision == 11

\* .round(3)
Decimals == 3

\* The number 1.
One == 2^(Precision + 1)

\* The exponent of num/den: its neighbours are 2^k units apart.
RECURSIVE ExpOf(_, _, _)
ExpOf(num, den, k) ==
    IF num < 2^(k + 1) * 2^(Precision - 1) * den THEN k ELSE ExpOf(num, den, k + 1)

\* The whole number nearest to num/q, the even one of two equally near.
NearestEven(num, q) ==
    LET m == num \div q
        r == num % q
    IN  IF 2 * r < q THEN m
        ELSE IF 2 * r > q THEN m + 1
        ELSE IF m % 2 = 0 THEN m ELSE m + 1

\* The floating point number an operation with the exact result num/den gives.
FlRound(num, den) ==
    LET k == ExpOf(num, den, 0)
    IN  2^k * NearestEven(num, 2^k * den)

\* numpy.rint
Rint(x) == One * NearestEven(x, One)

\* x.round(3): x times 10^3, rint of it, divided by 10^3.
Round(x) == FlRound(Rint(FlRound(10^Decimals * x, 1)), 10^Decimals)

\* The sum of the first n rows, added one after the other.
RECURSIVE SumRows(_, _)
SumRows(col, n) ==
    IF n = 1 THEN col[1] ELSE FlRound(SumRows(col, n - 1) + col[n], 1)

\* col.mean(axis=0): the sum of the rows divided by their number.
Mean(col) == FlRound(SumRows(col, Len(col)), Len(col))

(***************************************************************************)
(* The world of the model: source files, read functions, file contents.    *)
(***************************************************************************)
\* Bounds.
MaxBatch == 2

MaxCalls == 2

MaxCallsOne == 3

MaxDeletes == 1

MaxChanges == 1

MaxRows == 3

ItemSize == 2

Procs == {"p1", "p2"}

\* Source FITS files as get_weave_files yields them, <root>/<level>/<date>/
\* <name>.fits: /w/L/d/s.fits, /w/L/e/s.fits (the same base name in another
\* directory) and /w/L/d/t.fits.
FitsExt == <<".", "f", "i", "t", "s">>

FileA == << EmptySeg, <<"w">>, <<"L">>, <<"d">>, <<"s">> \o FitsExt >>

FileB == << EmptySeg, <<"w">>, <<"L">>, <<"e">>, <<"s">> \o FitsExt >>

FileC == << EmptySeg, <<"w">>, <<"L">>, <<"d">>, <<"t">> \o FitsExt >>

Files == {FileA, FileB, FileC}

\* Names of read functions: read_ct, read_t, read_c_t.
ReadCT == ReadPrefix \o <<"c", "t">>

ReadT == ReadPrefix \o <<"t">>

ReadC_T == ReadPrefix \o <<"c", "_", "t">>

Readers == {ReadCT}

\* The content of a source file: the table with its columns, in one of two
\* versions, or a file from which the table cannot be read.
ContentV1 == [ok |-> TRUE, ver |-> 1, cols |-> {"FLUX"}]

ContentV2 == [ok |-> TRUE, ver |-> 2, cols |-> {"FLUX", "IVAR"}]

ContentBad == [ok |-> FALSE, ver |-> 0, cols |-> {}]

Contents == {ContentV1, ContentV2, ContentBad}

\* The lists of file names a decorated reader is called with: up to MaxBatch
\* different files, in any order.
FileLists ==
    UNION {{l \in [1..n -> Files] : \A i, j \in 1..n : l[i] = l[j] => i = j} :
              n \in 1..MaxBatch}

CachePaths == {CachePath(r, f) : r \in Readers, f \in Files}

Absent == [state |-> "absent"]

NoDataset == [kind |-> "none"]

ErrorResult == [kind |-> "error"]

\* The columns read_class_table (CZZ_* without CHI2) and read_class_spec
\* (LAMBDA_*) make coordinates: one number per row (one point of the grid),
\* 1 to MaxRows rows.  The numbers are 1/4, the second and the third number
\* above it, and two neighbours further up in [1/4, 1/2).
ValueOffsets == {0, 2, 3, 342, 343}

CzzValues == {2^(Precision - 1) + i : i \in ValueOffsets}

Columns == UNION {[1..n -> CzzValues] : n \in 1..MaxRows}

Tables == [reader : {"read_class_table", "read_class_spec"}, col : Columns]

NoTable == [reader |-> "read_class_table", col |-> <<2^(Precision - 1)>>]

\* assert (czz == czz_all.round(3)).all()
AssertAll(c, col_all) == \A i \in 1..Len(col_all) : c = Round(col_all[i])

\* read_class_table for the column CZZ_*: czz_all.mean(axis=0).round(3) is
\* the coordinate; no dataset when the assertion fails.
read_class_table(czz_all) ==
    LET czz == Round(Mean(czz_all))
    IN  IF AssertAll(czz, czz_all)
        THEN [kind |-> "dataset", coords |-> czz]
        ELSE NoDataset

\* read_class_spec for the column LAMBDA_*.
read_class_spec(wl_all) ==
    LET wl == Round(Mean(wl_all))
    IN  IF AssertAll(wl, wl_all)
        THEN [kind |-> "dataset", coords |-> wl]
        ELSE NoDataset

\* The read function of a table applied to its column.
ReadTable(t) ==
    IF t.reader = "read_class_table"
    THEN read_class_table(t.col)
    ELSE read_class_spec(t.col)

\* The content of a source file that holds the table t: the read function
\* raises when the assertion fails.
TableContent(t) == [ContentV1 EXCEPT !.ok = (ReadTable(t) # NoDataset)]

\* Byte order.  A column is an array of items of ItemSize bytes each with
\* the byte order of its dtype: ">" (big-endian, as in a FITS file) or "<"
\* (little-endian).  sys.byteorder is the order native to the platform.
Orders == {"<", ">"}

ByteValues == {0, 1, 255}

Items == [1..ItemSize -> ByteValues]

ByteColumns ==
    [order : Orders, data : UNION {[1..n -> Items] : n \in 1..MaxRows}]

NoColumn == [order |-> "none", data |-> <<>>]

\* The number an item stands for: its first byte is the most significant
\* one in big-endian order, the least significant one in little-endian order.
RECURSIVE BigEndianValue(_, _)
BigEndianValue(b, n) ==
    IF n = 0 THEN 0 ELSE 256 * BigEndianValue(b, n - 1) + b[n]

ReverseBytes(b) == [i \in 1..Len(b) |-> b[Len(b) + 1 - i]]

ItemValue(order, b) ==
    IF order = ">"
    THEN BigEndianValue(b, Len(b))
    ELSE BigEndianValue(ReverseBytes(b), Len(b))

ColumnValues(c) == [i \in 1..Len(c.data) |-> ItemValue(c.order, c.data[i])]

\* .newbyteorder(): the same bytes, read in the other byte order.
newbyteorder(c) == [c EXCEPT !.order = IF @ = ">" THEN "<" ELSE ">"]

\* .byteswap(): the bytes of each item reversed, the same dtype.
byteswap(c) == [c EXCEPT !.data = [i \in 1..Len(@) |-> ReverseBytes(@[i])]]

VARIABLES
    src,        \* source file -> its content
    fs,         \* cache path -> the file at that path (Absent when none)
    dirs,       \* the directories that exist under the store
    stage,      \* process -> where it is in netcdf_wrapper
    rdr,        \* process -> the read function of its call
    fns,        \* process -> the list of file names of its call
    out,        \* process -> fns_netcdf, the paths returned so far
    ds,         \* process -> the dataset in memory during a conversion
    result,     \* process -> what its last call gave its caller
    calls,      \* the number of calls started so far
    deletes,    \* the number of external deletions so far
    changes,    \* the number of replacements of a source file so far
    cached,     \* history: <<read function, file name, path>> for each path a
                \* call returned, the file not deleted externally since that
                \* call wrote it or found it
    clean,      \* history: process -> no external deletion of the file of its
                \* current conversion since its existence check
    warm,       \* history: process -> its pair was in cached at its check
    pathIn,     \* path computation: two (read function, file name) pairs
    pathOut,    \* path computation: their cache paths, once computed
    tabIn,      \* the read function and the column of the table of a source
                \* file that the read function makes a coordinate
    colIn,      \* byte order: the platform and a column as Table.read gives it
    colOut      \* byte order: the column as the read function passes it on

vars == <<src, fs, dirs, stage, rdr, fns, out, ds, result, calls, deletes, changes,
          cached, clean, warm, pathIn, pathOut, tabIn, colIn, colOut>>

procVars == <<stage, rdr, fns, out, ds, result, calls>>

pathVars == <<pathIn, pathOut>>

readerVars == <<tabIn, colIn, colOut>>

(***************************************************************************)
(* The steps of single_via_netcdf and netcdf_wrapper.                      *)
(***************************************************************************)
Active == {"check", "read", "mkdir", "write", "writing", "combine"}

Converting == {"read", "mkdir", "write", "writing"}

CurFile(p) == fns[p][Len(out[p]) + 1]

CurPath(p) == CachePath(rdr[p], CurFile(p))

InConversion(p) == stage[p] \in Converting

\* The existence check left out: every call converts.
ExistsNever(files, path) == FALSE

\* os.path.exists(fn_netcdf)

Exists(files, path) == files[path] # Absent

\* read_function(fn): the dataset of the table, or no dataset when the
\* table cannot be read (the read function raises).
ReadFunction(name, content) ==
    IF content.ok
    THEN [kind |-> "dataset", table |-> TableName(name),
          cols |-> content.cols, data |-> content.ver]
    ELSE NoDataset

\* The extension left on the "filename" value.
ExpandDimsFull(d, fn) == [d EXCEPT !.kind = "artifact"] @@ [filename |-> Last(fn)]

\* ds.expand_dims({"filename": [fn_base]})

ExpandDims(d, fn) == [d EXCEPT !.kind = "artifact"] @@ [filename |-> FnBase(fn)]

\* The state of the wrapper after single_via_netcdf returned path for the
\* current file: the path joins fns_netcdf; the comprehension goes on to the
\* next file name, or is done and the netCDF files are opened.
\* The path put in front of fns_netcdf instead of at its end.
ReturnedInFront(p, path) ==
    /\ out' = [out EXCEPT ![p] = <<path>> \o @]
    /\ stage' = [stage EXCEPT ![p] =
                    IF Len(out[p]) + 1 < Len(fns[p]) THEN "check" ELSE "combine"]
    /\ cached' = IF clean'[p]
                  THEN cached \cup {<<rdr[p], CurFile(p), path>>}
                  ELSE cached

Returned(p, path) ==
    /\ out' = [out EXCEPT ![p] = Append(@, path)]
    /\ stage' = [stage EXCEPT ![p] =
                    IF Len(out[p]) + 1 < Len(fns[p]) THEN "check" ELSE "combine"]
    /\ cached' = IF clean'[p]
                  THEN cached \cup {<<rdr[p], CurFile(p), path>>}
                  ELSE cached

\* A call of the decorated reader with a list of file names.
Call(p, r, list) ==
    /\ stage[p] \notin Active
    /\ calls' = calls + 1
    /\ rdr' = [rdr EXCEPT ![p] = r]
    /\ fns' = [fns EXCEPT ![p] = list]
    /\ out' = [out EXCEPT ![p] = <<>>]
    /\ ds' = [ds EXCEPT ![p] = NoDataset]
    /\ result' = [result EXCEPT ![p] = NoDataset]
    /\ stage' = [stage EXCEPT ![p] = "check"]
    /\ UNCHANGED <<src, fs, dirs, deletes, changes, cached, clean, warm, pathVars, readerVars>>

\* if not os.path.exists(fn_netcdf): ... return fn_netcdf
Check(p) ==
    /\ stage[p] = "check"
    /\ clean' = [clean EXCEPT ![p] = TRUE]
    /\ warm' = [warm EXCEPT ![p] =
                    \E c \in cached : c[1] = rdr[p] /\ c[2] = CurFile(p)]
    /\ IF Exists(fs, CurPath(p))
       THEN Returned(p, CurPath(p))
       ELSE /\ stage' = [stage EXCEPT ![p] = "read"]
            /\ UNCHANGED <<out, cached>>
    /\ UNCHANGED <<src, fs, dirs, rdr, fns, ds, result, calls, deletes, changes, pathVars, readerVars>>

\* ds = read_function(fn); ds = ds.expand_dims(...)
Read(p) ==
    /\ stage[p] = "read"
    /\ LET d == ReadFunction(rdr[p], src[CurFile(p)])
       IN  IF d = NoDataset
           THEN /\ stage' = [stage EXCEPT ![p] = "failed"]
                /\ result' = [result EXCEPT ![p] = ErrorResult]
                /\ UNCHANGED ds
           ELSE /\ stage' = [stage EXCEPT ![p] = "mkdir"]
                /\ ds' = [ds EXCEPT ![p] = ExpandDims(d, CurFile(p))]
                /\ UNCHANGED result
    /\ UNCHANGED <<src, fs, dirs, rdr, fns, out, calls, deletes, changes, cached, clean,
                   warm, pathVars, readerVars>>

\* os.makedirs(os.path.dirname(fn_netcdf), exist_ok=True)
Mkdir(p) ==
    /\ stage[p] = "mkdir"
    /\ dirs' = dirs \cup MakeDirs(DirName(CurPath(p)))
    /\ stage' = [stage EXCEPT ![p] = "write"]
    /\ UNCHANGED <<src, fs, rdr, fns, out, ds, result, calls, deletes, changes, cached,
                   clean, warm, pathVars, readerVars>>

\* ds.to_netcdf(fn_netcdf) opens the file at the final path for writing: the
\* file is created, or truncated when there is one, and holds part of the
\* dataset until the write is done.
WriteOpen(p) ==
    /\ stage[p] = "write"
    /\ DirName(CurPath(p)) \in dirs
    /\ fs' = [fs EXCEPT ![CurPath(p)] = [state |-> "partial", ds |-> ds[p]]]
    /\ stage' = [stage EXCEPT ![p] = "writing"]
    /\ clean' = [clean EXCEPT ![p] = TRUE]
    /\ UNCHANGED <<src, dirs, rdr, fns, out, ds, result, calls, deletes, changes, cached,
                   warm, pathVars, readerVars>>

\* ds.to_netcdf(fn_netcdf) writes the rest and closes the file; the file is
\* whole unless another process is still writing it.  A file unlinked during
\* the write is not back at the path.
WriteClose(p) ==
    /\ stage[p] = "writing"
    /\ LET k == CurPath(p)
           busy == \E q \in Procs \ {p} : stage[q] = "writing" /\ CurPath(q) = k
       IN  fs' = [fs EXCEPT ![k] =
                     IF fs[k] = Absent THEN Absent
                     ELSE [state |-> IF busy THEN "partial" ELSE "complete",
                           ds |-> ds[p]]]
    /\ ds' = [ds EXCEPT ![p] = NoDataset]
    /\ UNCHANGED clean
    /\ Returned(p, CurPath(p))
    /\ UNCHANGED <<src, dirs, rdr, fns, result, calls, deletes, changes, warm, pathVars, readerVars>>

\* os.makedirs or ds.to_netcdf raises: what was written so far stays.
IOError(p) ==
    /\ stage[p] \in {"mkdir", "write", "writing"}
    /\ stage' = [stage EXCEPT ![p] = "failed"]
    /\ result' = [result EXCEPT ![p] = ErrorResult]
    /\ ds' = [ds EXCEPT ![p] = NoDataset]
    /\ UNCHANGED <<src, fs, dirs, rdr, fns, out, calls, deletes, changes, cached,
                   clean, warm, pathVars, readerVars>>

\* xr.open_mfdataset(fns_netcdf, parallel=True), combine="by_coords": the
\* datasets are placed by the values of the coordinates that differ between
\* them and joined along those.  A file that is missing or not whole cannot
\* be opened.  Datasets with the same "filename" value take the same place
\* on that axis: depending on their other coordinates, which the model does
\* not hold, the call raises or the axis has one entry for them.
OpenMfDataset(files) ==
    LET n == Len(files)
        names == {files[i].ds.filename : i \in 1..n}
        combined == [kind |-> "combined",
                     filename |-> names,
                     cols |-> UNION {files[i].ds.cols : i \in 1..n}]
    IN  IF \E i \in 1..n : files[i] = Absent \/ files[i].state # "complete"
        THEN {ErrorResult}
        ELSE IF Cardinality(names) < n
             THEN {ErrorResult, combined}
             ELSE {combined}

\* data = xr.open_mfdataset(fns_netcdf, parallel=True); return data
Combine(p) ==
    /\ stage[p] = "combine"
    /\ \E data \in OpenMfDataset([i \in 1..Len(out[p]) |-> fs[out[p][i]]]) :
          /\ result' = [result EXCEPT ![p] = data]
          /\ stage' = [stage EXCEPT ![p] =
                          IF data = ErrorResult THEN "failed" ELSE "done"]
    /\ UNCHANGED <<src, fs, dirs, rdr, fns, out, ds, calls, deletes, changes, cached,
                   clean, warm, pathVars, readerVars>>

\* The caller interrupts the call, or its process is killed.
Abort(p) ==
    /\ stage[p] \in Active
    /\ stage' = [stage EXCEPT ![p] = "aborted"]
    /\ ds' = [ds EXCEPT ![p] = NoDataset]
    /\ UNCHANGED <<src, fs, dirs, rdr, fns, out, result, calls, deletes, changes,
                   cached, clean, warm, pathVars, readerVars>>

(***************************************************************************)
(* The environment: the operator deletes a cached file; a source file is   *)
(* replaced.                                                               *)
(***************************************************************************)
ExternalDelete(k) ==
    /\ deletes < MaxDeletes
    /\ fs[k] # Absent
    /\ deletes' = deletes + 1
    /\ fs' = [fs EXCEPT ![k] = Absent]
    /\ cached' = {c \in cached : c[3] # k}
    /\ clean' = [p \in Procs |->
                    IF InConversion(p) /\ CurPath(p) = k THEN FALSE ELSE clean[p]]
    /\ UNCHANGED <<src, dirs, procVars, changes, warm, pathVars, readerVars>>

SourceChange(f, c) ==
    /\ changes < MaxChanges
    /\ src[f] # c
    /\ changes' = changes + 1
    /\ src' = [src EXCEPT ![f] = c]
    /\ UNCHANGED <<fs, dirs, procVars, deletes, cached, clean, warm, pathVars, readerVars>>

(***************************************************************************)
(* Specifications.                                                         *)
(***************************************************************************)
NoPathIn == [r1 |-> ReadCT, f1 |-> FileA, r2 |-> ReadCT, f2 |-> FileA]

NoPathOut == <<>>

Init ==
    /\ src = [f \in Files |-> ContentV1]
    /\ fs = [k \in CachePaths |-> Absent]
    /\ dirs = {}
    /\ stage = [p \in Procs |-> "idle"]
    /\ rdr = [p \in Procs |-> ReadCT]
    /\ fns = [p \in Procs |-> <<>>]
    /\ out = [p \in Procs |-> <<>>]
    /\ ds = [p \in Procs |-> NoDataset]
    /\ result = [p \in Procs |-> NoDataset]
    /\ calls = 0
    /\ deletes = 0
    /\ changes = 0
    /\ cached = {}
    /\ clean = [p \in Procs |-> TRUE]
    /\ warm = [p \in Procs |-> FALSE]
    /\ pathIn = NoPathIn
    /\ pathOut = NoPathOut
    /\ tabIn = NoTable
    /\ colIn = NoColumn
    /\ colOut = NoColumn

ProcStep(p) ==
    \/ Check(p)
    \/ Read(p)
    \/ Mkdir(p)
    \/ WriteOpen(p)
    \/ WriteClose(p)
    \/ Combine(p)

Failure(p) ==
    \/ IOError(p)
    \/ Abort(p)

Env ==
    \/ \E k \in CachePaths : ExternalDelete(k)
    \/ \E f \in Files, c \in Contents : SourceChange(f, c)

\* Any number of processes share the store; calls fail and are interrupted;
\* the operator deletes cached files and replaces source files.
Next ==
    \/ \E p \in Procs :
          \/ calls < MaxCalls /\ \E r \in Readers, list \in FileLists : Call(p, r, list)
          \/ ProcStep(p)
          \/ Failure(p)
    \/ Env

Spec == Init /\ [][Next]_vars

\* One process alone, with failures, interruptions and the environment.
NextOne ==
    \/ calls < MaxCallsOne /\ \E r \in Readers, list \in FileLists : Call("p1", r, list)
    \/ ProcStep("p1")
    \/ Failure("p1")
    \/ Env

SpecOne == Init /\ [][NextOne]_vars

\* One process whose calls may be interrupted; nothing fails and nothing is
\* changed from outside.
NextResume ==
    \/ calls < MaxCalls /\ \E r \in Readers, list \in FileLists : Call("p1", r, list)
    \/ ProcStep("p1")
    \/ Abort("p1")

SpecResume == Init /\ [][NextResume]_vars

\* Two processes, one call each, nothing failing and nothing changed from outside.
NextRace ==
    \E p \in Procs :
       \/ calls < MaxCalls /\ stage[p] = "idle"
             /\ \E r \in Readers, list \in FileLists : Call(p, r, list)
       \/ ProcStep(p)

SpecRace == Init /\ [][NextRace]_vars

\* One process, no failure of the file system and no interruption; the file
\* /w/L/d/s.fits holds a table whose column the read function of the calls
\* makes a coordinate.
InitTable ==
    /\ tabIn \in Tables
    /\ src = [f \in Files |-> IF f = FileA THEN TableContent(tabIn) ELSE ContentV1]
    /\ Init!2 /\ Init!3 /\ Init!4 /\ Init!5 /\ Init!6 /\ Init!7 /\ Init!8
    /\ Init!9 /\ Init!10 /\ Init!11 /\ Init!12 /\ Init!13 /\ Init!14 /\ Init!15
    /\ Init!16 /\ Init!17 /\ Init!19 /\ Init!20

NextTable ==
    \/ calls < MaxCalls /\ \E r \in Readers, list \in FileLists : Call("p1", r, list)
    \/ ProcStep("p1")

SpecTable == InitTable /\ [][NextTable]_vars

(***************************************************************************)
(* The byte order of the columns of a read function.                       *)
(***************************************************************************)
InitBytes ==
    /\ Init!1 /\ Init!2 /\ Init!3 /\ Init!4 /\ Init!5 /\ Init!6 /\ Init!7
    /\ Init!8 /\ Init!9 /\ Init!10 /\ Init!11 /\ Init!12 /\ Init!13 /\ Init!14
    /\ Init!15 /\ Init!16 /\ Init!17 /\ Init!18
    /\ colIn \in [byteorder : Orders, col : ByteColumns]
    /\ colOut = NoColumn

\* cols = {c: cols[c].newbyteorder().byteswap() for c in cols}
SwapColumn ==
    /\ colOut = NoColumn
    /\ colOut' = byteswap(newbyteorder(colIn.col))
    /\ UNCHANGED <<src, fs, dirs, procVars, deletes, changes, cached, clean, warm,
                   pathVars, tabIn, colIn>>

SpecBytes == InitBytes /\ [][SwapColumn]_vars

(***************************************************************************)
(* The cache path as a function of its inputs.                             *)
(***************************************************************************)
FitExt == <<".", "f", "i", "t">>

\* /w/L/d/s.fit, /w/L/d/s_c.fits, /v/L/d/s.fits, L/d/s.fits, /w/L/d/./s.fits,
\* s.fits
PathFiles ==
    Files \cup
    { << EmptySeg, <<"w">>, <<"L">>, <<"d">>, <<"s">> \o FitExt >>,
      << EmptySeg, <<"w">>, <<"L">>, <<"d">>, <<"s", "_", "c">> \o FitsExt >>,
      << EmptySeg, <<"v">>, <<"L">>, <<"d">>, <<"s">> \o FitsExt >>,
      << <<"L">>, <<"d">>, <<"s">> \o FitsExt >>,
      << EmptySeg, <<"w">>, <<"L">>, <<"d">>, Dot, <<"s">> \o FitsExt >>,
      << <<"s">> \o FitsExt >> }

PathReaders == {ReadCT, ReadT, ReadC_T}

InitPath ==
    /\ Init!1 /\ Init!2 /\ Init!3 /\ Init!4 /\ Init!5 /\ Init!6 /\ Init!7
    /\ Init!8 /\ Init!9 /\ Init!10 /\ Init!11 /\ Init!12 /\ Init!13 /\ Init!14
    /\ Init!15
    /\ pathIn \in [r1 : PathReaders, f1 : PathFiles, r2 : PathReaders, f2 : PathFiles]
    /\ pathOut = NoPathOut
    /\ Init!18 /\ Init!19 /\ Init!20

\* single_via_netcdf computes fn_netcdf for each of the two pairs.
ComputePaths ==
    /\ pathOut = NoPathOut
    /\ pathOut' = <<CachePath(pathIn.r1, pathIn.f1), CachePath(pathIn.r2, pathIn.f2)>>
    /\ UNCHANGED <<src, fs, dirs, procVars, deletes, changes, cached, clean, warm, pathIn,
                   readerVars>>

SpecPath == InitPath /\ [][ComputePaths]_vars



(***************************************************************************)
(* Properties.                                                             *)
(***************************************************************************)
IsWhole(k) == fs[k].state = "complete"

\* The step in which p's existence check is made.
CheckStep(p) ==
    /\ stage[p] = "check"
    /\ out'[p] # out[p] \/ stage'[p] = "read"

\* C1: idempotence of single_via_netcdf.  Once a call has returned the path
\* of a (read function, file name) pair and the file was not deleted
\* externally since, a later call for the pair does not convert (it neither
\* calls the read function nor makes directories nor writes), and every path
\* returned for the pair is the same path.
C1_Idempotent ==
    /\ \A p \in Procs : InConversion(p) => ~warm[p]
    /\ \A a \in cached, b \in cached : a[1] = b[1] /\ a[2] = b[2] => a[3] = b[3]
    /\ \A c \in cached : fs[c[3]] # Absent

\* A second call for a pair found the file an earlier call had returned.
C1_Witness ==
    \E p \in Procs :
       /\ warm[p]
       /\ calls = 2
       /\ out[p] # <<>>
       /\ <<rdr[p], fns[p][Len(out[p])], Last(out[p])>> \in cached

\* C2: a failure never leaves a file that is not whole at a cache path: when
\* no write to the path is under way, a file at the path is a whole one.
C2_NoPartialLeft ==
    \A k \in CachePaths :
       (fs[k] # Absent /\ ~\E p \in Procs : stage[p] = "writing" /\ CurPath(p) = k)
          => IsWhole(k)

\* C3: path uniqueness.  Two pairs that differ in the table name or in the
\* last three segments of the file name have different cache paths.
C3_PathUnique ==
    pathOut # NoPathOut =>
       ((\/ TableName(pathIn.r1) # TableName(pathIn.r2)
         \/ LastThree(NormSplit(pathIn.f1)) # LastThree(NormSplit(pathIn.f2)))
          => pathOut[1] # pathOut[2])

\* C4: when processes race, nothing failing, a path that single_via_netcdf
\* returns is the path of a whole file.
C4_RaceReturnsWhole ==
    [][\A p \in Procs : out'[p] # out[p] /\ out'[p] # <<>>
          => fs'[Last(out'[p])].state = "complete"]_vars

\* C5: fail-fast batch.  When the conversion of a file of the list fails, the
\* caller gets the failure and no dataset, the failing file has no file at
\* its cache path, and the files returned before it are still in the cache.
C5_FailFast ==
    \A p \in Procs :
       (stage[p] = "failed" /\ Len(out[p]) < Len(fns[p]))
          => /\ result[p] = ErrorResult
             /\ fs[CurPath(p)] = Absent
             /\ deletes = 0 => \A i \in 1..Len(out[p]) : fs[out[p][i]] # Absent

\* C6: resumable batch.  A call that has converted or found every file of its
\* list, whatever calls were interrupted before it, has a whole file at every
\* path of its list.
C6_Resumable ==
    \A p \in Procs :
       stage[p] = "combine" => \A i \in 1..Len(out[p]) : IsWhole(out[p][i])

\* C7: frame condition.  No step of a call changes or deletes a whole file
\* of the cache.
C7_CacheFilesKept ==
    [][\A k \in CachePaths : IsWhole(k) => fs'[k] = fs[k]]_vars

\* C8: cache lifecycle.  A call that finds a file at the cache path returns
\* the path and leaves the file as it is, whatever the source file holds now;
\* a file leaves the cache only by external deletion; a call that finds no
\* file calls the read function, and the file it writes at that path holds
\* what was read from the source file as it was then, with the base name of
\* the source file, less its extension, as "filename".
C8_Lifecycle ==
    [][/\ \A p \in Procs :
            LET k == CurPath(p)
                f == CurFile(p)
            IN  /\ CheckStep(p) =>
                      IF fs[k] # Absent
                      THEN /\ fs' = fs
                           /\ out'[p] = Append(out[p], k)
                           /\ stage'[p] \notin Converting
                      ELSE stage'[p] = "read"
                /\ (stage[p] = "read" /\ stage'[p] = "mkdir") =>
                      /\ ds'[p].data = src[f].ver
                      /\ ds'[p].cols = src[f].cols
                      /\ ds'[p].filename = SubSeq(Last(f), 1, Len(Last(f)) - Len(FitsExt))
                /\ (stage[p] = "writing" /\ out'[p] # out[p] /\ fs[k] # Absent) =>
                      /\ fs'[k].ds = ds[p]
                      /\ out'[p] = Append(out[p], k)
      /\ \A k \in CachePaths :
            (fs[k] # Absent /\ fs'[k] = Absent) => deletes' = deletes + 1
     ]_vars

\* After a source file was replaced and the file cached for it deleted, a
\* third call has made the file anew from the new content.
C8_Witness ==
    \E f \in Files :
       LET k == CachePath(ReadCT, f)
       IN  /\ calls = 3
           /\ deletes = 1
           /\ changes = 1
           /\ IsWhole(k)
           /\ fs[k].ds.data = 2
           /\ src[f] = ContentV2
           /\ fs[k].ds.filename = <<"s">>
           /\ stage["p1"] = "done"
           /\ fns["p1"] = <<f>>
           /\ result["p1"].cols = ContentV2.cols

\* C9: the combined dataset of n distinct files, all converted, has n entries
\* on its "filename" axis, the base names of the files less their extensions,
\* and the union of the files' variables.
C9_CombineUnion ==
    [][\A p \in Procs :
          LET n == Len(fns[p])
          IN  (/\ stage[p] = "combine"
               /\ stage'[p] \in {"done", "failed"}
               /\ Cardinality(Range(fns[p])) = n
               /\ \A i \in 1..n : IsWhole(out[p][i]))
                 => /\ result'[p].kind = "combined"
                    /\ Cardinality(result'[p].filename) = n
                    /\ result'[p].filename = {FnBase(fns[p][i]) : i \in 1..n}
                    /\ result'[p].cols = UNION {fs[out[p][i]].ds.cols : i \in 1..n}
      ]_vars

TableRead(p) ==
    /\ stage[p] \in {"mkdir", "failed"}
    /\ Len(out[p]) < Len(fns[p])
    /\ CurFile(p) = FileA

\* Every row, rounded, equals the rounded mean of the rows.
RowsEqualMean(col) == \A i \in 1..Len(col) : Round(col[i]) = Round(Mean(col))

\* All rows agree after rounding.
RowsAgree(col) == \A i, j \in 1..Len(col) : Round(col[i]) = Round(col[j])

\* C11: shared-coordinate promotion.  When the read function has been applied
\* to the file, it has returned a dataset exactly if every row of the column,
\* rounded, equals the rounded mean of the rows, and that is the case exactly
\* if all rows agree after rounding; if it has not, the call has failed with
\* no dataset, and while the read function fails on the file the cache has no
\* file for it.
C11_SharedCoordinate ==
    /\ \A p \in Procs :
          TableRead(p) =>
             /\ (stage[p] = "mkdir") <=> RowsEqualMean(tabIn.col)
             /\ RowsEqualMean(tabIn.col) <=> RowsAgree(tabIn.col)
             /\ stage[p] = "failed" =>
                   (result[p] = ErrorResult /\ ds[p] = NoDataset)
    /\ ReadTable(tabIn) = NoDataset => ~Exists(fs, CachePath(ReadCT, FileA))

\* C12: byte-order normalization.  The column a read function passes on has
\* the byte order native to the platform and the values of the column read
\* from the file, whether that column had the foreign byte order or the
\* native one.
C12_NativeOrder ==
    colOut # NoColumn =>
       /\ colOut.order = colIn.byteorder
       /\ ColumnValues(colOut) = ColumnValues(colIn.col)

====
